---- MODULE Spec2Model ----
(***************************************************************************)
(* Model of the dictionary family of telran-backend-hw24:                  *)
(*   Entry (src/src/Entry.py), BaseDict (src/src/BaseDict.py),             *)
(*   MyDict (src/src/MyDict.py), MySortedDict (src/src/MySortedDict.py),   *)
(*   DictCache (src/src/DictCache.py).                                     *)
(* One MyDict and one MySortedDict are driven by the same calls, the way   *)
(* the shared test suite TestMyDictCommon drives both implementations.     *)
(***************************************************************************)
EXTENDS Integers, Sequences, FiniteSets, TLC

\* ---------------------------------------------------------------- bounds
MaxKey == 3
MaxVal == 2
\* DictCache is constructed with a maxsize in 1..MaxSize
MaxSize == 2

\* ------------------------------------------------------- python constants
\* Python's None; real values are 1..MaxVal
None == 0
\* BaseDict._sentinel, the "no default supplied" marker of pop
Sentinel == -1

Keys == 1..MaxKey
Vals == 1..MaxVal
PyVals == {None} \cup Vals
PopDefaults == PyVals \cup {Sentinel}

\* Optional[Entry]: << >> is None, <<e>> is the entry e
NoEntry == << >>

\* ------------------------------------------------------------------ Entry
Entry(k, v) == [key |-> k, value |-> v]

\* Entry equality had the value field taken part in the comparison
EntryEq_withValue(a, b) == a.key = b.key /\ a.value = b.value

\* dataclass __eq__: compares the compare-fields only; value has compare=False
EntryEq(a, b) == a.key = b.key

\* Entry ordering had the value field broken ties between equal keys
EntryLt_withValue(a, b) == a.key < b.key \/ (a.key = b.key /\ a.value < b.value)

\* dataclass order=True __lt__: compares the compare-fields only
EntryLt(a, b) == a.key < b.key

\* Entry.__hash__: hash(self.key)
EntryHash(a) == a.key

\* ------------------------------------------------- builtin set of entries
\* x in s
SetContains(s, x) == \E e \in s : EntryHash(e) = EntryHash(x) /\ EntryEq(e, x)

\* s.add(x): a set keeps the element it already holds
SetAdd(s, x) == IF SetContains(s, x) THEN s ELSE s \cup {x}

\* s.remove(x): removes the element equal to x
SetRemove(s, x) == {e \in s : ~(EntryHash(e) = EntryHash(x) /\ EntryEq(e, x))}

\* ----------------------------------------------------------------- MyDict
MyDict_init == {}

\* the lookup hands back the probe instead of the stored entry
MyDict_get_entry_probe(store, key) ==
    LET probe == Entry(key, None)
    IN  IF SetContains(store, probe) THEN <<probe>> ELSE NoEntry

MyDict_get_entry(store, key) ==
    LET probe == Entry(key, None)
    IN  IF SetContains(store, probe)
        THEN <<CHOOSE e \in store : EntryEq(e, probe)>>
        ELSE NoEntry

MyDict_add_entry(store, entry) == SetAdd(store, entry)

\* _remove_entry emptying the set instead of removing one entry
MyDict_remove_entry_clear(store, entry) == {}

MyDict_remove_entry(store, entry) == SetRemove(store, entry)

\* set.remove raises KeyError when no equal element is stored
MyDict_remove_raises(store, entry) == ~SetContains(store, entry)

MyDict_len(store) == Cardinality(store)

\* ------------------------------------------------- SortedSet (sorted list)
\* binary searches over the 0-based window [lo, hi) of the sorted list
RECURSIVE BisectLeftIn(_, _, _, _)
BisectLeftIn(seq, x, lo, hi) ==
    IF lo < hi
    THEN LET mid == (lo + hi) \div 2
         IN  IF EntryLt(seq[mid + 1], x)
             THEN BisectLeftIn(seq, x, mid + 1, hi)
             ELSE BisectLeftIn(seq, x, lo, mid)
    ELSE lo

RECURSIVE BisectRightIn(_, _, _, _)
BisectRightIn(seq, x, lo, hi) ==
    IF lo < hi
    THEN LET mid == (lo + hi) \div 2
         IN  IF EntryLt(x, seq[mid + 1])
             THEN BisectRightIn(seq, x, lo, mid)
             ELSE BisectRightIn(seq, x, mid + 1, hi)
    ELSE lo

SortedSet_bisect_left(seq, x) == BisectLeftIn(seq, x, 0, Len(seq))

SortedSet_bisect_right(seq, x) == BisectRightIn(seq, x, 0, Len(seq))

SortedSet_contains(seq, x) ==
    \E i \in 1..Len(seq) : EntryHash(seq[i]) = EntryHash(x) /\ EntryEq(seq[i], x)

InsertAt(seq, pos, x) == SubSeq(seq, 1, pos) \o <<x>> \o SubSeq(seq, pos + 1, Len(seq))

DeleteAt(seq, pos) == SubSeq(seq, 1, pos) \o SubSeq(seq, pos + 2, Len(seq))

\* SortedSet[ind]: Python indexing, a negative index counts from the end
SortedSet_getitem(seq, ind) == IF ind < 0 THEN seq[Len(seq) + ind + 1] ELSE seq[ind + 1]

\* SortedSet.add appending at the end of the list
SortedSet_add_append(seq, x) ==
    IF SortedSet_contains(seq, x) THEN seq ELSE Append(seq, x)

\* SortedSet.add: only when not a member, at the bisect_right position
SortedSet_add(seq, x) ==
    IF SortedSet_contains(seq, x)
    THEN seq
    ELSE InsertAt(seq, SortedSet_bisect_right(seq, x), x)

\* SortedSet.remove dropping the value from the set but not from the list
SortedSet_remove_keep(seq, x) == seq

\* SortedSet.remove: deletes the element found at the bisect_left position
SortedSet_remove(seq, x) ==
    LET idx == SortedSet_bisect_left(seq, x)
    IN  IF idx < Len(seq) /\ EntryEq(seq[idx + 1], x)
        THEN DeleteAt(seq, idx)
        ELSE seq

\* ----------------------------------------------------------- MySortedDict
MySortedDict_init == << >>

\* the lookup searching with bisect_right, one position past an equal key
MySortedDict_get_entry_right(store, key) ==
    LET probe == Entry(key, None)
        idx == SortedSet_bisect_right(store, probe)
    IN  IF idx < Len(store) /\ store[idx + 1].key = key
        THEN <<store[idx + 1]>>
        ELSE NoEntry

MySortedDict_get_entry(store, key) ==
    LET probe == Entry(key, None)
        idx == SortedSet_bisect_left(store, probe)
    IN  IF idx < Len(store) /\ store[idx + 1].key = key
        THEN <<store[idx + 1]>>
        ELSE NoEntry

MySortedDict_add_entry(store, entry) == SortedSet_add(store, entry)

MySortedDict_remove_entry(store, entry) == SortedSet_remove(store, entry)

\* SortedSet.remove raises KeyError when the value is not a member
MySortedDict_remove_raises(store, entry) == ~SortedSet_contains(store, entry)

MySortedDict_len(store) == Len(store)

\* bisect_left answering the right boundary
MySortedDict_bisect_left_right(store, key) == SortedSet_bisect_right(store, Entry(key, None))

MySortedDict_bisect_left(store, key) == SortedSet_bisect_left(store, Entry(key, None))

\* bisect_right answering the left boundary
MySortedDict_bisect_right_left(store, key) == SortedSet_bisect_left(store, Entry(key, None))

MySortedDict_bisect_right(store, key) == SortedSet_bisect_right(store, Entry(key, None))

\* peekitem refusing every negative index
MySortedDict_peekitem_noNegative(store, ind) ==
    LET size == MySortedDict_len(store)
    IN  IF ind < 0 \/ ind >= size
        THEN [exc |-> "IndexError", ret |-> << >>]
        ELSE [exc |-> "none",
              ret |-> <<SortedSet_getitem(store, ind).key, SortedSet_getitem(store, ind).value>>]

\* the (key, value) tuple at index ind, or IndexError; ret is << >> when it raises
MySortedDict_peekitem(store, ind) ==
    LET size == MySortedDict_len(store)
    IN  IF ind < -size \/ ind >= size
        THEN [exc |-> "IndexError", ret |-> << >>]
        ELSE [exc |-> "none",
              ret |-> <<SortedSet_getitem(store, ind).key, SortedSet_getitem(store, ind).value>>]

\* --------------------------------------------------------------- BaseDict
\* The abstract primitives, dispatched on the class of self.
get_entry(cls, store, key) ==
    IF cls = "MyDict" THEN MyDict_get_entry(store, key)
    ELSE MySortedDict_get_entry(store, key)

add_entry(cls, store, entry) ==
    IF cls = "MyDict" THEN MyDict_add_entry(store, entry)
    ELSE MySortedDict_add_entry(store, entry)

remove_entry(cls, store, entry) ==
    IF cls = "MyDict" THEN MyDict_remove_entry(store, entry)
    ELSE MySortedDict_remove_entry(store, entry)

remove_raises(cls, store, entry) ==
    IF cls = "MyDict" THEN MyDict_remove_raises(store, entry)
    ELSE MySortedDict_remove_raises(store, entry)

dict_len(cls, store) ==
    IF cls = "MyDict" THEN MyDict_len(store) ELSE MySortedDict_len(store)

value_or_default(entry, default) ==
    IF entry # NoEntry THEN entry[1].value ELSE default

\* Outcome of one call: the storage afterwards, the entry the call looked up,
\* the exception raised ("none" when it returned), the returned value and the
\* calls it made to _remove_entry and _add_entry, in order.
Outcome(store, entry, exc, ret) ==
    [store |-> store, entry |-> entry, exc |-> exc, ret |-> ret, calls |-> << >>]

WithCalls(outcome, calls) == [outcome EXCEPT !.calls = calls]

\* the entries of the given key that the storage holds
StoredWithKey(cls, store, key) ==
    IF cls = "MyDict" THEN {e \in store : e.key = key}
    ELSE {store[i] : i \in {j \in 1..Len(store) : store[j].key = key}}

\* one call of a storage primitive: its argument and what the storage held
\* for that key when it was called
PrimCall(prim, cls, store, entry) ==
    [prim |-> prim, entry |-> entry, holds |-> StoredWithKey(cls, store, entry.key)]

\* self._remove_entry(entry) when an entry was found
RemoveCall(cls, store, entry) ==
    IF entry # NoEntry THEN <<PrimCall("remove", cls, store, entry[1])>> ELSE << >>

\* __setitem__ without the removal of the existing entry
BaseDict_setitem_noRemove(cls, store, key, value) ==
    LET entry == get_entry(cls, store, key)
    IN  Outcome(add_entry(cls, store, Entry(key, value)), entry, "none", None)

BaseDict_setitem(cls, store, key, value) ==
    LET entry == get_entry(cls, store, key)
        s1 == IF entry # NoEntry THEN remove_entry(cls, store, entry[1]) ELSE store
        s2 == add_entry(cls, s1, Entry(key, value))
    IN  IF entry # NoEntry /\ remove_raises(cls, store, entry[1])
        THEN WithCalls(Outcome(store, entry, "KeyError", None), RemoveCall(cls, store, entry))
        ELSE WithCalls(Outcome(s2, entry, "none", None),
                       RemoveCall(cls, store, entry)
                           \o <<PrimCall("add", cls, s1, Entry(key, value))>>)

\* indexed read storing the missing key with None before it raises
BaseDict_getitem_insertMissing(cls, store, key) ==
    LET entry == get_entry(cls, store, key)
    IN  IF entry = NoEntry
        THEN Outcome(add_entry(cls, store, Entry(key, None)), entry, "KeyError", None)
        ELSE Outcome(store, entry, "none", entry[1].value)

\* indexed read answering None for a missing key instead of raising
BaseDict_getitem_noRaise(cls, store, key) ==
    LET entry == get_entry(cls, store, key)
    IN  Outcome(store, entry, "none", value_or_default(entry, None))

BaseDict_getitem(cls, store, key) ==
    LET entry == get_entry(cls, store, key)
    IN  IF entry = NoEntry
        THEN Outcome(store, entry, "KeyError", None)
        ELSE Outcome(store, entry, "none", entry[1].value)

BaseDict_get(cls, store, key, default) ==
    LET entry == get_entry(cls, store, key)
    IN  Outcome(store, entry, "none", value_or_default(entry, default))

\* setdefault skipping the insertion when the default is None
BaseDict_setdefault_skipNone(cls, store, key, default) ==
    LET entry == get_entry(cls, store, key)
        s1 == IF entry = NoEntry /\ default # None
              THEN add_entry(cls, store, Entry(key, default)) ELSE store
    IN  Outcome(s1, entry, "none", value_or_default(entry, default))

BaseDict_setdefault(cls, store, key, default) ==
    LET entry == get_entry(cls, store, key)
        s1 == IF entry = NoEntry THEN add_entry(cls, store, Entry(key, default)) ELSE store
    IN  WithCalls(Outcome(s1, entry, "none", value_or_default(entry, default)),
                  IF entry = NoEntry
                  THEN <<PrimCall("add", cls, store, Entry(key, default))>> ELSE << >>)

\* pop testing the default against None instead of the sentinel
BaseDict_pop_noneDefault(cls, store, key, default) ==
    LET entry == get_entry(cls, store, key)
        s1 == IF entry # NoEntry THEN remove_entry(cls, store, entry[1]) ELSE store
    IN  IF entry = NoEntry /\ (default = None \/ default = Sentinel)
        THEN Outcome(store, entry, "KeyError", None)
        ELSE Outcome(s1, entry, "none", value_or_default(entry, default))

BaseDict_pop(cls, store, key, default) ==
    LET entry == get_entry(cls, store, key)
        s1 == IF entry # NoEntry THEN remove_entry(cls, store, entry[1]) ELSE store
    IN  IF entry = NoEntry /\ default = Sentinel
        THEN Outcome(store, entry, "KeyError", None)
        ELSE IF entry # NoEntry /\ remove_raises(cls, store, entry[1])
        THEN WithCalls(Outcome(store, entry, "KeyError", None), RemoveCall(cls, store, entry))
        ELSE WithCalls(Outcome(s1, entry, "none", value_or_default(entry, default)),
                       RemoveCall(cls, store, entry))

\* update changing existing keys only
BaseDict_update_existingOnly(cls, store, key, value) ==
    LET old_entry == get_entry(cls, store, key)
        s1 == IF old_entry # NoEntry THEN remove_entry(cls, store, old_entry[1]) ELSE store
        s2 == IF old_entry # NoEntry THEN add_entry(cls, s1, Entry(key, value)) ELSE store
    IN  Outcome(s2, old_entry, "none", None)

\* update adding the new entry before removing the old one
BaseDict_update_addFirst(cls, store, key, value) ==
    LET old_entry == get_entry(cls, store, key)
        s1 == add_entry(cls, store, Entry(key, value))
        s2 == IF old_entry # NoEntry THEN remove_entry(cls, s1, old_entry[1]) ELSE s1
    IN  WithCalls(Outcome(s2, old_entry, "none", None),
                  <<PrimCall("add", cls, store, Entry(key, value))>>
                      \o RemoveCall(cls, s1, old_entry))

BaseDict_update(cls, store, key, value) ==
    LET old_entry == get_entry(cls, store, key)
        s1 == IF old_entry # NoEntry THEN remove_entry(cls, store, old_entry[1]) ELSE store
        s2 == add_entry(cls, s1, Entry(key, value))
    IN  IF old_entry # NoEntry /\ remove_raises(cls, store, old_entry[1])
        THEN WithCalls(Outcome(store, old_entry, "KeyError", None),
                       RemoveCall(cls, store, old_entry))
        ELSE WithCalls(Outcome(s2, old_entry, "none", None),
                       RemoveCall(cls, store, old_entry)
                           \o <<PrimCall("add", cls, s1, Entry(key, value))>>)

\* _entries() of MyDict: the set, iterated in the order of its hash table
MyDict_entries(order) == order

\* _entries() of MySortedDict: the SortedSet, iterated in sorted order
MySortedDict_entries(store) == store

BaseDict_items(it) == [i \in 1..Len(it) |-> <<it[i].key, it[i].value>>]

BaseDict_keys(it) == [i \in 1..Len(it) |-> it[i].key]

\* values() listing the values from the last entry to the first
BaseDict_values_reversed(it) == [i \in 1..Len(it) |-> it[Len(it) + 1 - i].value]

BaseDict_values(it) == [i \in 1..Len(it) |-> it[i].value]

\* -------------------------------------------------------------- DictCache
\* An OrderedDict is a sequence of (key, value) items with distinct keys,
\* oldest first.
OD_keys(od) == {od[i].key : i \in 1..Len(od)}

\* key in od
OD_contains(od, key) == \E i \in 1..Len(od) : od[i].key = key

OD_index(od, key) == CHOOSE i \in 1..Len(od) : od[i].key = key

\* OrderedDict.__getitem__ of a present key
OD_getitem(od, key) == od[OD_index(od, key)].value

\* OrderedDict.__setitem__ keeping the value of a present key
OD_setitem_keepValue(od, key, value) ==
    IF OD_contains(od, key) THEN od ELSE Append(od, Entry(key, value))

\* OrderedDict.__setitem__: a present key keeps its position, a new key is appended
OD_setitem(od, key, value) ==
    IF OD_contains(od, key)
    THEN [od EXCEPT ![OD_index(od, key)] = Entry(key, value)]
    ELSE Append(od, Entry(key, value))

\* move_to_end(key, last=False): the key goes to the oldest end
OD_move_to_end_front(od, key) ==
    LET i == OD_index(od, key)
    IN  <<od[i]>> \o SubSeq(od, 1, i - 1) \o SubSeq(od, i + 1, Len(od))

\* OrderedDict.move_to_end(key) of a present key
OD_move_to_end(od, key) ==
    LET i == OD_index(od, key)
    IN  SubSeq(od, 1, i - 1) \o SubSeq(od, i + 1, Len(od)) \o <<od[i]>>

\* OrderedDict.popitem(last=False): drops the oldest item
OD_popitem_first(od) == Tail(od)

\* DictCache(): the constructor's default maxsize
DefaultMaxSize == 128

DictCache_init == << >>

\* __getitem__ without the move to the most recently used end
DictCache_getitem_noMove(od, key) ==
    IF ~OD_contains(od, key)
    THEN [store |-> od, exc |-> "KeyError", ret |-> None]
    ELSE [store |-> od, exc |-> "none", ret |-> OD_getitem(od, key)]

DictCache_getitem(od, key) ==
    IF ~OD_contains(od, key)
    THEN [store |-> od, exc |-> "KeyError", ret |-> None]
    ELSE [store |-> OD_move_to_end(od, key), exc |-> "none", ret |-> OD_getitem(od, key)]

\* __setitem__ evicting on "exists" instead of "not exists": a new key never evicts
DictCache_setitem_noEvict(od, size, key, value) ==
    LET exists == OD_contains(od, key)
        s1 == OD_setitem(od, key, value)
        s2 == OD_move_to_end(s1, key)
    IN  IF exists /\ Len(s2) > size
        THEN [store |-> OD_popitem_first(s2), exists |-> exists]
        ELSE [store |-> s2, exists |-> exists]

\* __setitem__ with popitem() evicting the newest item
DictCache_setitem_popLast(od, size, key, value) ==
    LET exists == OD_contains(od, key)
        s1 == OD_setitem(od, key, value)
        s2 == OD_move_to_end(s1, key)
    IN  IF ~exists /\ Len(s2) > size
        THEN [store |-> SubSeq(s2, 1, Len(s2) - 1), exists |-> exists]
        ELSE [store |-> s2, exists |-> exists]

\* __setitem__ leaving a present key at its position
DictCache_setitem_noMove(od, size, key, value) ==
    LET exists == OD_contains(od, key)
        s1 == OD_setitem(od, key, value)
        s2 == IF exists THEN s1 ELSE OD_move_to_end(s1, key)
    IN  IF ~exists /\ Len(s2) > size
        THEN [store |-> OD_popitem_first(s2), exists |-> exists]
        ELSE [store |-> s2, exists |-> exists]

\* __setitem__ evicting as soon as the size reaches maxsize
DictCache_setitem_evictEarly(od, size, key, value) ==
    LET exists == OD_contains(od, key)
        s1 == OD_setitem(od, key, value)
        s2 == OD_move_to_end(s1, key)
    IN  IF ~exists /\ Len(s2) >= size
        THEN [store |-> OD_popitem_first(s2), exists |-> exists]
        ELSE [store |-> s2, exists |-> exists]

DictCache_setitem(od, size, key, value) ==
    LET exists == OD_contains(od, key)
        s1 == OD_setitem(od, key, value)
        s2 == OD_move_to_end(s1, key)
    IN  IF ~exists /\ Len(s2) > size
        THEN [store |-> OD_popitem_first(s2), exists |-> exists]
        ELSE [store |-> s2, exists |-> exists]

\* ------------------------------------------------------------------ state
VARIABLES
    hd,         \* MyDict.__entries: a set of entries
    sd,         \* MySortedDict.__entries: the sorted sequence of entries
    last,       \* the last call: its name, arguments and outcome on each dictionary
    cache,      \* the DictCache: its items, oldest first
    maxsize,    \* DictCache.maxsize
    clast,      \* the last call on the cache and its outcome
    hist,       \* history: the keys ever written, by last successful read or write, oldest first
    wrote,      \* history: the value last written for each key ever written
    refreshed,  \* history: the present keys read or written since the last eviction
    horder,     \* the order in which MyDict's set yields its entries, << >> until iterated
    view        \* the last items(), keys() or values() call and its result on each dictionary

dvars == <<hd, sd, last>>

cvars == <<cache, maxsize, clast, hist, wrote, refreshed>>

ivars == <<horder, view>>

vars == <<hd, sd, last, cache, maxsize, clast, hist, wrote, refreshed, horder, view>>

Call(op, key, arg, h, s) ==
    [op |-> op, key |-> key, arg |-> arg,
     h |-> [entry |-> h.entry, exc |-> h.exc, ret |-> h.ret, calls |-> h.calls],
     s |-> [entry |-> s.entry, exc |-> s.exc, ret |-> s.ret, calls |-> s.calls]]

NoOutcome == [entry |-> NoEntry, exc |-> "none", ret |-> None, calls |-> << >>]

InitDicts ==
    /\ hd = MyDict_init
    /\ sd = MySortedDict_init
    /\ last = Call("init", None, None, NoOutcome, NoOutcome)

CacheCall(op, key, arg, exc, ret, exists, evicted) ==
    [op |-> op, key |-> key, arg |-> arg, exc |-> exc, ret |-> ret,
     exists |-> exists, evicted |-> evicted]

\* DictCache(size)
InitCache(size) ==
    /\ cache = DictCache_init
    /\ maxsize = size
    /\ clast = CacheCall("init", None, None, "none", None, FALSE, {})
    /\ hist = << >>
    /\ wrote = << >>
    /\ refreshed = {}

View(op, h, s) == [op |-> op, h |-> h, s |-> s]

InitViews ==
    /\ horder = << >>
    /\ view = View("none", << >>, << >>)

Init == InitDicts /\ InitCache(DefaultMaxSize) /\ InitViews

\* d[key] = value
SetItem ==
    \E key \in Keys, value \in PyVals :
        LET h == BaseDict_setitem("MyDict", hd, key, value)
            s == BaseDict_setitem("MySortedDict", sd, key, value)
        IN  /\ hd' = h.store
            /\ sd' = s.store
            /\ UNCHANGED <<cvars, ivars>>
            /\ last' = Call("set", key, value, h, s)

\* d.update(key, value)
Update ==
    \E key \in Keys, value \in PyVals :
        LET h == BaseDict_update("MyDict", hd, key, value)
            s == BaseDict_update("MySortedDict", sd, key, value)
        IN  /\ hd' = h.store
            /\ sd' = s.store
            /\ UNCHANGED <<cvars, ivars>>
            /\ last' = Call("update", key, value, h, s)

\* d.setdefault(key, default); default is None when omitted
SetDefault ==
    \E key \in Keys, default \in PyVals :
        LET h == BaseDict_setdefault("MyDict", hd, key, default)
            s == BaseDict_setdefault("MySortedDict", sd, key, default)
        IN  /\ hd' = h.store
            /\ sd' = s.store
            /\ UNCHANGED <<cvars, ivars>>
            /\ last' = Call("setdefault", key, default, h, s)

\* d.pop(key) and d.pop(key, default); default is Sentinel when omitted
Pop ==
    \E key \in Keys, default \in PopDefaults :
        LET h == BaseDict_pop("MyDict", hd, key, default)
            s == BaseDict_pop("MySortedDict", sd, key, default)
        IN  /\ hd' = h.store
            /\ sd' = s.store
            /\ UNCHANGED <<cvars, ivars>>
            /\ last' = Call("pop", key, default, h, s)

\* d.get(key) and d.get(key, default); default is None when omitted
Get ==
    \E key \in Keys, default \in PyVals :
        LET h == BaseDict_get("MyDict", hd, key, default)
            s == BaseDict_get("MySortedDict", sd, key, default)
        IN  /\ hd' = h.store
            /\ sd' = s.store
            /\ UNCHANGED <<cvars, ivars>>
            /\ last' = Call("get", key, default, h, s)

\* d[key]
GetItem ==
    \E key \in Keys :
        LET h == BaseDict_getitem("MyDict", hd, key)
            s == BaseDict_getitem("MySortedDict", sd, key)
        IN  /\ hd' = h.store
            /\ sd' = s.store
            /\ UNCHANGED <<cvars, ivars>>
            /\ last' = Call("getitem", key, None, h, s)

\* sorted.bisect_left(key); keys one below and one above the stored range too
BisectLeft ==
    \E key \in 0..(MaxKey + 1) :
        /\ UNCHANGED <<hd, sd>>
        /\ UNCHANGED <<cvars, ivars>>
        /\ last' = Call("bisect_left", key, None, NoOutcome,
                        Outcome(sd, NoEntry, "none", MySortedDict_bisect_left(sd, key)))

\* sorted.bisect_right(key)
BisectRight ==
    \E key \in 0..(MaxKey + 1) :
        /\ UNCHANGED <<hd, sd>>
        /\ UNCHANGED <<cvars, ivars>>
        /\ last' = Call("bisect_right", key, None, NoOutcome,
                        Outcome(sd, NoEntry, "none", MySortedDict_bisect_right(sd, key)))

\* sorted.peekitem(ind); indexes from -(MaxKey + 1) to MaxKey reach both ends
PeekItem ==
    \E ind \in (0 - MaxKey - 1)..MaxKey :
        LET p == MySortedDict_peekitem(sd, ind)
        IN  /\ UNCHANGED <<hd, sd>>
            /\ UNCHANGED <<cvars, ivars>>
            /\ last' = Call("peekitem", ind, None, NoOutcome,
                            Outcome(sd, NoEntry, p.exc, p.ret))

Next ==
    \/ SetItem
    \/ Update
    \/ SetDefault
    \/ Pop
    \/ Get
    \/ GetItem
    \/ BisectLeft
    \/ BisectRight
    \/ PeekItem

Spec == Init /\ [][Next]_vars

\* ------------------------------------------------------ DictCache behaviour
\* one key more than the largest maxsize, so that every cache can overflow
CacheKeys == 1..(MaxSize + 1)

\* seq without k, then k at the end
MoveLast(seq, k) == SelectSeq(seq, LAMBDA x : x # k) \o <<k>>

\* value = cache[key]
CacheRead ==
    \E key \in CacheKeys :
        LET r == DictCache_getitem(cache, key)
        IN  /\ cache' = r.store
            /\ clast' = CacheCall("read", key, None, r.exc, r.ret,
                                  OD_contains(cache, key), OD_keys(cache) \ OD_keys(r.store))
            /\ hist' = IF r.exc = "none" THEN MoveLast(hist, key) ELSE hist
            /\ refreshed' = IF r.exc = "none" THEN refreshed \cup {key} ELSE refreshed
            /\ UNCHANGED <<maxsize, wrote>>
            /\ UNCHANGED <<dvars, ivars>>

\* cache[key] = value
CacheWrite ==
    \E key \in CacheKeys, value \in PyVals :
        LET w == DictCache_setitem(cache, maxsize, key, value)
            evicted == OD_keys(cache) \ OD_keys(w.store)
        IN  /\ cache' = w.store
            /\ clast' = CacheCall("write", key, value, "none", None, w.exists, evicted)
            /\ hist' = MoveLast(hist, key)
            /\ wrote' = (key :> value) @@ wrote
            /\ refreshed' = IF key \in OD_keys(cache) THEN refreshed \cup {key}
                            ELSE IF evicted # {} THEN {}
                            ELSE refreshed
            /\ UNCHANGED maxsize
            /\ UNCHANGED <<dvars, ivars>>

NextCache ==
    \/ CacheRead
    \/ CacheWrite

InitSpecCache == InitDicts /\ InitViews /\ \E size \in 1..MaxSize : InitCache(size)

SpecCache == InitSpecCache /\ [][NextCache]_vars

\* ---------------------------------------------------- iteration behaviour
\* the orders in which a set may yield its elements
Perms(S) ==
    {f \in [1..Cardinality(S) -> S] : \A e \in S : \E i \in 1..Cardinality(S) : f[i] = e}

\* The order in which the set yields its entries is not determined by the
\* program: any order may show at the first iteration after a change of the
\* set, and that order stays until the set changes again.
IterOrders == IF Len(horder) = Cardinality(hd) THEN {horder} ELSE Perms(hd)

\* A mutating call on both dictionaries; a call that changed the set leaves
\* its iteration order open, a call that made no change keeps it.
Mutate(h, s) ==
    /\ hd' = h.store
    /\ sd' = s.store
    /\ horder' = IF h.calls = << >> THEN horder ELSE << >>
    /\ view' = View("none", << >>, << >>)
    /\ UNCHANGED <<last, cvars>>

VSetItem ==
    \E key \in Keys, value \in PyVals :
        Mutate(BaseDict_setitem("MyDict", hd, key, value),
               BaseDict_setitem("MySortedDict", sd, key, value))

VUpdate ==
    \E key \in Keys, value \in PyVals :
        Mutate(BaseDict_update("MyDict", hd, key, value),
               BaseDict_update("MySortedDict", sd, key, value))

VSetDefault ==
    \E key \in Keys, default \in PyVals :
        Mutate(BaseDict_setdefault("MyDict", hd, key, default),
               BaseDict_setdefault("MySortedDict", sd, key, default))

VPop ==
    \E key \in Keys, default \in PopDefaults :
        Mutate(BaseDict_pop("MyDict", hd, key, default),
               BaseDict_pop("MySortedDict", sd, key, default))

\* d.items()
Items ==
    \E order \in IterOrders :
        /\ horder' = order
        /\ view' = View("items", BaseDict_items(MyDict_entries(order)),
                        BaseDict_items(MySortedDict_entries(sd)))
        /\ UNCHANGED <<dvars, cvars>>

\* d.keys()
KeysCall ==
    \E order \in IterOrders :
        /\ horder' = order
        /\ view' = View("keys", BaseDict_keys(MyDict_entries(order)),
                        BaseDict_keys(MySortedDict_entries(sd)))
        /\ UNCHANGED <<dvars, cvars>>

\* d.values()
ValuesCall ==
    \E order \in IterOrders :
        /\ horder' = order
        /\ view' = View("values", BaseDict_values(MyDict_entries(order)),
                        BaseDict_values(MySortedDict_entries(sd)))
        /\ UNCHANGED <<dvars, cvars>>

NextViews ==
    \/ VSetItem
    \/ VUpdate
    \/ VSetDefault
    \/ VPop
    \/ Items
    \/ KeysCall
    \/ ValuesCall

SpecViews == Init /\ [][NextViews]_vars

\* ------------------------------------------------- one object under test
\* The dictionaries and the cache are separate objects that share no state.
\* A behaviour works on the pair of dictionaries or on a cache, the way each
\* test case of the suite builds and drives its own object.
DictsUntouched == hd = MyDict_init /\ sd = MySortedDict_init /\ last.op = "init"

CacheUntouched == cache = DictCache_init /\ clast.op = "init"

NextObjects ==
    \/ CacheUntouched /\ SetItem
    \/ CacheUntouched /\ Update
    \/ CacheUntouched /\ SetDefault
    \/ CacheUntouched /\ Pop
    \/ CacheUntouched /\ Get
    \/ CacheUntouched /\ GetItem
    \/ CacheUntouched /\ BisectLeft
    \/ CacheUntouched /\ BisectRight
    \/ CacheUntouched /\ PeekItem
    \/ DictsUntouched /\ CacheRead
    \/ DictsUntouched /\ CacheWrite

SpecObjects == InitSpecCache /\ [][NextObjects]_vars

\* ------------------------------------------------------------ observations
\* What a dictionary holds, read off the storage itself.
HKeys == {e.key : e \in hd}

SKeys == {sd[i].key : i \in 1..Len(sd)}

HValues(k) == {e.value : e \in {x \in hd : x.key = k}}

SValues(k) == {sd[i].value : i \in {j \in 1..Len(sd) : sd[j].key = k}}

\* ----------------------------------------------------------------- claims

\* C1: after any sequence of set, update, setdefault and pop calls from the
\* empty dictionary, neither MyDict nor MySortedDict holds two entries with
\* equal keys, and len() is the number of distinct keys present.
C1_UniqueKeys ==
    /\ \A e1, e2 \in hd : e1.key = e2.key => e1 = e2
    /\ \A i, j \in 1..Len(sd) : sd[i].key = sd[j].key => i = j
    /\ MyDict_len(hd) = Cardinality(HKeys)
    /\ MySortedDict_len(sd) = Cardinality(SKeys)

\* a key already stored was written again with another value, others are stored too
C1_Witness ==
    /\ last.op \in {"set", "update"}
    /\ last.h.entry # NoEntry /\ last.s.entry # NoEntry
    /\ last.h.entry[1].value # last.arg
    /\ Cardinality(HKeys) >= 2 /\ Len(sd) >= 2

\* C2: immediately after set(k, v), get(k) and the indexed read of k both
\* return v, the value of the stored entry, not the probe's placeholder.
C2_SetThenRead ==
    last.op = "set" =>
        /\ BaseDict_get("MyDict", hd, last.key, None).ret = last.arg
        /\ BaseDict_getitem("MyDict", hd, last.key) =
               Outcome(hd, <<Entry(last.key, last.arg)>>, "none", last.arg)
        /\ BaseDict_get("MySortedDict", sd, last.key, None).ret = last.arg
        /\ BaseDict_getitem("MySortedDict", sd, last.key) =
               Outcome(sd, <<Entry(last.key, last.arg)>>, "none", last.arg)

\* set(k, v) with a real value v has just run
C2_Witness ==
    /\ last.op = "set"
    /\ last.arg \in Vals
    /\ last.key \in HKeys /\ last.key \in SKeys

\* C3: set(k, v2) on a key that is already present leaves len() unchanged
\* and afterwards get(k) = v2.
C3_Replace ==
    [][(last'.op = "set" /\ last'.key \in HKeys /\ last'.key \in SKeys) =>
          /\ MyDict_len(hd') = MyDict_len(hd)
          /\ MySortedDict_len(sd') = MySortedDict_len(sd)
          /\ BaseDict_get("MyDict", hd', last'.key, None).ret = last'.arg
          /\ BaseDict_get("MySortedDict", sd', last'.key, None).ret = last'.arg]_vars

\* set(k, v2) has replaced a different stored value v1
C3_Witness ==
    /\ last.op = "set"
    /\ last.h.entry # NoEntry /\ last.s.entry # NoEntry
    /\ last.h.entry[1].value # last.arg
    /\ last.s.entry[1].value # last.arg
    /\ HValues(last.key) = {last.arg}

\* C4: pop of an absent key raises KeyError when no default is supplied;
\* with a default d (None included) it returns d and leaves entries and
\* len() unchanged.
C4_PopAbsent ==
    [][(last'.op = "pop" /\ last'.key \notin HKeys /\ last'.key \notin SKeys) =>
          IF last'.arg = Sentinel
          THEN last'.h.exc = "KeyError" /\ last'.s.exc = "KeyError"
          ELSE /\ last'.h.exc = "none" /\ last'.h.ret = last'.arg
               /\ last'.s.exc = "none" /\ last'.s.ret = last'.arg
               /\ hd' = hd /\ sd' = sd
               /\ MyDict_len(hd') = MyDict_len(hd)
               /\ MySortedDict_len(sd') = MySortedDict_len(sd)]_vars

\* pop(k, None) has run on a non-empty dictionary that does not hold k
C4_Witness ==
    /\ last.op = "pop"
    /\ last.arg = None
    /\ last.key \notin HKeys /\ last.key \notin SKeys
    /\ last.h.entry = NoEntry /\ last.s.entry = NoEntry
    /\ hd # {} /\ sd # << >>

\* C5: pop of a present key, with or without default, returns the stored
\* value, removes the key (get returns its default, indexed read raises
\* KeyError) and decreases len() by exactly one.
C5_PopPresent ==
    [][(last'.op = "pop" /\ last'.key \in HKeys /\ last'.key \in SKeys) =>
          /\ last'.h.exc = "none" /\ {last'.h.ret} = HValues(last'.key)
          /\ last'.s.exc = "none" /\ {last'.s.ret} = SValues(last'.key)
          /\ \A d \in PyVals :
                /\ BaseDict_get("MyDict", hd', last'.key, d).ret = d
                /\ BaseDict_get("MySortedDict", sd', last'.key, d).ret = d
          /\ BaseDict_getitem("MyDict", hd', last'.key).exc = "KeyError"
          /\ BaseDict_getitem("MySortedDict", sd', last'.key).exc = "KeyError"
          /\ MyDict_len(hd') = MyDict_len(hd) - 1
          /\ MySortedDict_len(sd') = MySortedDict_len(sd) - 1]_vars

\* pop(k, d) has returned a stored value different from the default d
C5_Witness ==
    /\ last.op = "pop"
    /\ last.arg \in Vals
    /\ last.h.entry # NoEntry /\ last.s.entry # NoEntry
    /\ last.h.ret # last.arg /\ last.s.ret # last.arg
    /\ last.key \notin HKeys /\ last.key \notin SKeys

\* C6: setdefault(k, d) on an absent key inserts (k, d), also for d = None,
\* grows len() by one and returns d; on a present key it returns the stored
\* value and changes nothing; the returned value is what an indexed read of
\* k returns afterwards.
C6_SetDefault ==
    [][last'.op = "setdefault" =>
          /\ last'.h.exc = "none" /\ last'.s.exc = "none"
          /\ IF last'.key \in HKeys
             THEN {last'.h.ret} = HValues(last'.key) /\ hd' = hd
             ELSE /\ last'.h.ret = last'.arg
                  /\ hd' = hd \cup {Entry(last'.key, last'.arg)}
                  /\ MyDict_len(hd') = MyDict_len(hd) + 1
          /\ IF last'.key \in SKeys
             THEN {last'.s.ret} = SValues(last'.key) /\ sd' = sd
             ELSE /\ last'.s.ret = last'.arg
                  /\ \E i \in 1..Len(sd') : sd'[i] = Entry(last'.key, last'.arg)
                  /\ MySortedDict_len(sd') = MySortedDict_len(sd) + 1
          /\ BaseDict_getitem("MyDict", hd', last'.key) =
                 Outcome(hd', <<Entry(last'.key, last'.h.ret)>>, "none", last'.h.ret)
          /\ BaseDict_getitem("MySortedDict", sd', last'.key) =
                 Outcome(sd', <<Entry(last'.key, last'.s.ret)>>, "none", last'.s.ret)]_vars

\* setdefault(k, None) has inserted an absent key next to other keys
C6_Witness ==
    /\ last.op = "setdefault"
    /\ last.arg = None
    /\ last.h.entry = NoEntry /\ last.s.entry = NoEntry
    /\ last.key \in HKeys /\ last.key \in SKeys
    /\ Cardinality(HKeys) >= 2 /\ Len(sd) >= 2

\* C7: get(k, d) never raises and never changes the dictionary, returning
\* the stored value when k is present and d when it is absent; the indexed
\* read returns the stored value when k is present and raises KeyError
\* exactly when k is absent; an indexed write always succeeds.
C7_GetAndAccess ==
    [][/\ last'.op = "get" =>
            /\ last'.h.exc = "none" /\ last'.s.exc = "none"
            /\ hd' = hd /\ sd' = sd
            /\ IF last'.key \in HKeys THEN {last'.h.ret} = HValues(last'.key)
                                      ELSE last'.h.ret = last'.arg
            /\ IF last'.key \in SKeys THEN {last'.s.ret} = SValues(last'.key)
                                      ELSE last'.s.ret = last'.arg
       /\ last'.op = "getitem" =>
            /\ (last'.h.exc = "KeyError") <=> (last'.key \notin HKeys)
            /\ (last'.s.exc = "KeyError") <=> (last'.key \notin SKeys)
            /\ last'.h.exc \in {"none", "KeyError"} /\ last'.s.exc \in {"none", "KeyError"}
            /\ last'.key \in HKeys => {last'.h.ret} = HValues(last'.key)
            /\ last'.key \in SKeys => {last'.s.ret} = SValues(last'.key)
       /\ last'.op = "set" => last'.h.exc = "none" /\ last'.s.exc = "none"]_vars

\* an indexed read has failed on a missing key while other keys are stored
C7_Witness ==
    /\ last.op = "getitem"
    /\ last.h.exc = "KeyError" /\ last.s.exc = "KeyError"
    /\ last.key \notin HKeys /\ last.key \notin SKeys
    /\ hd # {} /\ sd # << >>

\* C8: update(k, v) and set(k, v) produce the same dictionary (keys, values,
\* len(), iteration order of MySortedDict) from every reachable state, for
\* present and absent k alike.
C8_UpdateIsSet ==
    \A k \in Keys, v \in PyVals :
        /\ BaseDict_update("MyDict", hd, k, v).store = BaseDict_setitem("MyDict", hd, k, v).store
        /\ BaseDict_update("MyDict", hd, k, v).exc = BaseDict_setitem("MyDict", hd, k, v).exc
        /\ BaseDict_update("MySortedDict", sd, k, v).store =
               BaseDict_setitem("MySortedDict", sd, k, v).store
        /\ BaseDict_update("MySortedDict", sd, k, v).exc =
               BaseDict_setitem("MySortedDict", sd, k, v).exc

\* update has run in a state holding some keys and lacking others
C8_Witness ==
    /\ last.op = "update"
    /\ HKeys # {} /\ HKeys # Keys
    /\ SKeys # {} /\ SKeys # Keys

\* C9: the entries of MySortedDict are in strictly increasing key order
\* after every set, update, setdefault and pop, replacements included.
C9_SortedOrder ==
    \A i \in 1..(Len(sd) - 1) : sd[i].key < sd[i + 1].key

\* a replacement of the smallest key has run on three or more entries
C9_Witness ==
    /\ last.op \in {"set", "update"}
    /\ last.s.entry # NoEntry
    /\ Len(sd) >= 3
    /\ sd[1].key = last.key

CountLess(k) == Cardinality({i \in 1..Len(sd) : sd[i].key < k})

CountLessEq(k) == Cardinality({i \in 1..Len(sd) : sd[i].key <= k})

\* C10: bisect_left(k) is the number of stored keys < k and bisect_right(k)
\* the number of stored keys <= k, for present and absent k; neither call
\* changes the dictionary.
C10_Bisect ==
    [][/\ last'.op = "bisect_left" =>
            last'.s.ret = CountLess(last'.key) /\ sd' = sd /\ hd' = hd
       /\ last'.op = "bisect_right" =>
            last'.s.ret = CountLessEq(last'.key) /\ sd' = sd /\ hd' = hd]_vars

\* bisect_right has run on a present key that is not the smallest
C10_Witness ==
    /\ last.op = "bisect_right"
    /\ last.key \in SKeys
    /\ last.s.ret >= 2
    /\ Len(sd) >= 3

\* C11: for a MySortedDict of size n (n = 0 included) peekitem(i) returns the
\* pair at position i of the increasing key order for 0 <= i < n, the pair
\* at position n + i for -n <= i < 0, and raises IndexError for every i
\* outside [-n, n), in particular for i = n and i = -n - 1.
C11_PeekItem ==
    [][last'.op = "peekitem" =>
          LET n == Len(sd)
              i == last'.key
          IN  /\ sd' = sd /\ hd' = hd
              /\ (0 <= i /\ i < n) =>
                     /\ last'.s.exc = "none"
                     /\ last'.s.ret = <<sd[i + 1].key, sd[i + 1].value>>
                     /\ CountLess(last'.s.ret[1]) = i
              /\ (0 - n <= i /\ i < 0) =>
                     /\ last'.s.exc = "none"
                     /\ last'.s.ret = <<sd[n + i + 1].key, sd[n + i + 1].value>>
                     /\ CountLess(last'.s.ret[1]) = n + i
              /\ (i < 0 - n \/ i >= n) => last'.s.exc = "IndexError"]_vars

\* peekitem(-2) has returned the middle pair of three
C11_Witness ==
    /\ last.op = "peekitem"
    /\ last.key = 0 - 2
    /\ Len(sd) = 3
    /\ last.s.exc = "none"
    /\ last.s.ret = <<sd[2].key, sd[2].value>>

\* ------------------------------------------------- DictCache observations
CKeys == OD_keys(cache)

\* the value the cache stores for a present key, read off the items
CValue(od, k) == (CHOOSE i \in 1..Len(od) : od[i].key = k)

CValueOf(od, k) == od[CValue(od, k)].value

\* position of a key in the access history
HistPos(k) == CHOOSE i \in 1..Len(hist) : hist[i] = k

\* among the stored keys, the one whose last successful read or write is the oldest
LRUKey == hist[CHOOSE i \in 1..Len(hist) :
                  /\ hist[i] \in CKeys
                  /\ \A j \in 1..(i - 1) : hist[j] \notin CKeys]

\* the stored keys other than k, in cache order
OthersOrder(od, k) == SelectSeq([i \in 1..Len(od) |-> od[i].key], LAMBDA x : x # k)

\* C12: for every positive maxsize, the number of stored keys never exceeds
\* maxsize between operations.
C12_Bounded ==
    /\ Len(cache) <= maxsize
    /\ Cardinality(CKeys) <= maxsize

\* a full cache has just evicted a key
C12_Witness ==
    /\ clast.op = "write"
    /\ clast.evicted # {}
    /\ Len(cache) = maxsize
    /\ maxsize >= 2

\* C13: a write of an absent key into a cache holding maxsize keys removes
\* exactly one key, the stored key whose last read or write is the oldest,
\* keeps every other key with its value, stores the new key, and a read of
\* the evicted key then raises KeyError.
C13_Eviction ==
    [][(clast'.op = "write" /\ clast'.key \notin CKeys /\ Len(cache) = maxsize) =>
          /\ OD_keys(cache') = (CKeys \ {LRUKey}) \cup {clast'.key}
          /\ LRUKey \in CKeys
          /\ Cardinality(CKeys \ OD_keys(cache')) = 1
          /\ Len(cache') = maxsize
          /\ \A j \in CKeys \ {LRUKey} : CValueOf(cache', j) = CValueOf(cache, j)
          /\ CValueOf(cache', clast'.key) = clast'.arg
          /\ DictCache_getitem(cache', LRUKey).exc = "KeyError"]_vars

\* a write of a new key into a full cache of two or more keys has evicted a key
C13_Witness ==
    /\ clast.op = "write"
    /\ clast.evicted # {}
    /\ maxsize >= 2
    /\ Len(cache) = maxsize
    /\ clast.arg \in Vals
    /\ cache[Len(cache)] = Entry(clast.key, clast.arg)
    /\ \A k \in clast.evicted : DictCache_getitem(cache, k).exc = "KeyError"

\* C14, as stated: after a read or write of a present key k, the next write
\* that evicts an entry does not evict k.
C14_NextEvictionSparesRefreshed ==
    [][clast'.evicted \cap refreshed = {}]_vars

\* C14, amended: a read or write of a present key k moves k to the most
\* recently used position, and the next write that evicts an entry evicts k
\* only when every other stored key was read or written after k.
C14_Recency ==
    [][/\ (clast'.op \in {"read", "write"} /\ clast'.exc = "none" /\ clast'.key \in CKeys) =>
            cache'[Len(cache')].key = clast'.key
       /\ \A k \in clast'.evicted \cap refreshed :
            \A j \in CKeys \ {k} : HistPos(k) < HistPos(j)]_vars

\* a read has refreshed the oldest key of a full cache of two or more keys
C14_Witness ==
    /\ clast.op = "read"
    /\ clast.exc = "none"
    /\ Len(cache) = maxsize
    /\ maxsize >= 2
    /\ clast.key \in refreshed
    /\ cache[Len(cache)].key = clast.key
    /\ hist[Len(hist)] = clast.key

\* C15: a write to a present key never evicts: keys and size are unchanged,
\* the key gets the written value, every other key keeps its value and the
\* written key becomes the most recently used; a write of a new key while
\* size < maxsize evicts nothing and grows the size by one.
C15_WriteFrame ==
    [][clast'.op = "write" =>
          /\ clast'.key \in CKeys =>
                /\ OD_keys(cache') = CKeys
                /\ Len(cache') = Len(cache)
                /\ CValueOf(cache', clast'.key) = clast'.arg
                /\ \A j \in CKeys \ {clast'.key} : CValueOf(cache', j) = CValueOf(cache, j)
                /\ cache'[Len(cache')].key = clast'.key
          /\ (clast'.key \notin CKeys /\ Len(cache) < maxsize) =>
                /\ OD_keys(cache') = CKeys \cup {clast'.key}
                /\ Len(cache') = Len(cache) + 1
                /\ \A j \in CKeys : CValueOf(cache', j) = CValueOf(cache, j)]_vars

\* a present key that was the oldest of a full cache has been overwritten
C15_Witness ==
    /\ clast.op = "write"
    /\ clast.exists
    /\ clast.evicted = {}
    /\ Len(cache) = maxsize
    /\ maxsize >= 2
    /\ cache[Len(cache)] = Entry(clast.key, clast.arg)

C17_KeyLifecycle ==
    [][/\ \A k \in CacheKeys :
            /\ (k \notin CKeys /\ k \in OD_keys(cache')) =>
                  /\ clast'.op = "write" /\ clast'.key = k
                  /\ cache'[Len(cache')].key = k
            /\ (k \in CKeys /\ k \notin OD_keys(cache')) =>
                  /\ clast'.op = "write" /\ clast'.key \notin CKeys
                  /\ Len(cache) = maxsize
                  /\ k = LRUKey
       /\ (clast'.op = "read" \/ (clast'.op = "write" /\ clast'.key \in CKeys)) =>
            CKeys \subseteq OD_keys(cache')]_vars

\* a key written, evicted and written again is present once more
C17_Witness ==
    /\ clast.op = "write"
    /\ ~clast.exists
    /\ clast.evicted # {}
    /\ clast.key \in CKeys
    /\ \E k \in clast.evicted : k \in DOMAIN wrote
    /\ Len(hist) > Len(cache) + 1

\* the calls a derived method may make: _add_entry only while no entry of
\* that key is stored, _remove_entry only with a stored entry, at most one
\* of each, the removal before the insertion
Protocol(calls) ==
    /\ \A i \in 1..Len(calls) :
          /\ calls[i].prim = "add" => calls[i].holds = {}
          /\ calls[i].prim = "remove" => calls[i].entry \in calls[i].holds
    /\ Cardinality({i \in 1..Len(calls) : calls[i].prim = "add"}) <= 1
    /\ Cardinality({i \in 1..Len(calls) : calls[i].prim = "remove"}) <= 1
    /\ \A i, j \in 1..Len(calls) :
          (calls[i].prim = "remove" /\ calls[j].prim = "add") => i < j

\* C19: in every set, update, setdefault and pop, _add_entry is invoked only
\* when no entry with that key is stored (an existing entry is removed
\* first), _remove_entry only with an entry that is stored, and each call
\* performs at most one remove and at most one insert.
C19_PrimitiveProtocol ==
    last.op \in {"set", "update", "setdefault", "pop"} =>
        /\ Protocol(last.h.calls)
        /\ Protocol(last.s.calls)
        /\ (last.op \in {"set", "update"} /\ last.h.entry # NoEntry) =>
               last.h.calls[1].prim = "remove"
        /\ (last.op \in {"set", "update"} /\ last.s.entry # NoEntry) =>
               last.s.calls[1].prim = "remove"

\* update of a stored key has removed the old entry and inserted the new one
C19_Witness ==
    /\ last.op = "update"
    /\ Len(last.h.calls) = 2 /\ Len(last.s.calls) = 2
    /\ last.h.calls[1].prim = "remove" /\ last.h.calls[2].prim = "add"
    /\ last.h.calls[1].entry.value # last.arg

\* C20: Entry comparison is key-only: Entry(k1, v1) = Entry(k2, v2) iff
\* k1 = k2, Entry(k1, v1) < Entry(k2, v2) iff k1 < k2, equal entries have
\* equal hashes; so a probe Entry(k, None) finds, and a removal with any
\* entry of key k removes, the stored entry of k whatever its value.
C20_KeyOnlyComparison ==
    /\ \A k1, k2 \in Keys, v1, v2 \in PyVals :
          /\ EntryEq(Entry(k1, v1), Entry(k2, v2)) <=> (k1 = k2)
          /\ EntryLt(Entry(k1, v1), Entry(k2, v2)) <=> (k1 < k2)
          /\ EntryEq(Entry(k1, v1), Entry(k2, v2)) =>
                 EntryHash(Entry(k1, v1)) = EntryHash(Entry(k2, v2))
    /\ \A e \in hd :
          /\ SetContains(hd, Entry(e.key, None))
          /\ MyDict_get_entry(hd, e.key) = <<e>>
          /\ \A v \in PyVals :
                /\ ~MyDict_remove_raises(hd, Entry(e.key, v))
                /\ MyDict_remove_entry(hd, Entry(e.key, v)) = hd \ {e}
    /\ \A i \in 1..Len(sd) :
          /\ MySortedDict_get_entry(sd, sd[i].key) = <<sd[i]>>
          /\ \A v \in PyVals :
                /\ ~MySortedDict_remove_raises(sd, Entry(sd[i].key, v))
                /\ MySortedDict_remove_entry(sd, Entry(sd[i].key, v)) = DeleteAt(sd, i - 1)

\* a lookup has found a stored entry with a real value next to two more entries
C20_Witness ==
    /\ last.op = "get"
    /\ last.h.entry # NoEntry /\ last.s.entry # NoEntry
    /\ last.h.entry[1].value \in Vals
    /\ last.h.entry[1] \in hd
    /\ Len(sd) >= 3
    /\ \E i \in 1..Len(sd) : sd[i] = last.s.entry[1]

\* how often x occurs in the sequence seq
Occurrences(seq, x) == Cardinality({i \in 1..Len(seq) : seq[i] = x})

\* the three views of one dictionary, taken with no mutation in between
ViewsAgree(it, size, pairs) ==
    LET its == BaseDict_items(it)
        ks == BaseDict_keys(it)
        vs == BaseDict_values(it)
    IN  /\ Len(its) = size /\ Len(ks) = size /\ Len(vs) = size
        /\ {its[i] : i \in 1..Len(its)} = pairs
        /\ \A p \in pairs : Occurrences(its, p) = 1
        /\ \A p \in pairs : Occurrences(ks, p[1]) = 1
        /\ \A v \in PyVals :
              Occurrences(vs, v) = Cardinality({p \in pairs : p[2] = v})
        /\ \A i \in 1..size : <<ks[i], vs[i]>> = its[i]

\* C18: items(), keys() and values() hold one element per current entry,
\* exactly once; items() is the set of (key, stored value) pairs; without a
\* mutation in between, the i-th key and the i-th value form the i-th pair
\* of items(); none of the three calls changes the dictionary.
C18_Views ==
    [][view'.op \in {"items", "keys", "values"} =>
          /\ hd' = hd /\ sd' = sd
          /\ Len(horder) = Cardinality(hd) => horder' = horder
          /\ ViewsAgree(MyDict_entries(horder'), MyDict_len(hd'),
                        {<<e.key, e.value>> : e \in hd'})
          /\ ViewsAgree(MySortedDict_entries(sd'), MySortedDict_len(sd'),
                        {<<sd'[i].key, sd'[i].value>> : i \in 1..Len(sd')})
          /\ view'.op = "items" =>
                /\ view'.h = BaseDict_items(MyDict_entries(horder'))
                /\ view'.s = BaseDict_items(MySortedDict_entries(sd))
          /\ view'.op = "keys" =>
                /\ view'.h = BaseDict_keys(MyDict_entries(horder'))
                /\ view'.s = BaseDict_keys(MySortedDict_entries(sd))
          /\ view'.op = "values" =>
                /\ view'.h = BaseDict_values(MyDict_entries(horder'))
                /\ view'.s = BaseDict_values(MySortedDict_entries(sd))]_vars

\* values() has listed a repeated value, the set yielding its three entries
\* in another order than the sorted dictionary
C18_Witness ==
    /\ view.op = "values"
    /\ Len(view.h) = 3 /\ Len(view.s) = 3
    /\ view.h[1] = view.h[3] /\ view.h[1] # view.h[2]
    /\ horder # sd

\* the sizes differ by at most one
AtMostOneApart(m, n) == m - n \in {0 - 1, 0, 1}

\* C21: set(k, ..), update(k, ..), setdefault(k, ..) and pop(k, ..) change at
\* most the entry of key k: for every other key j, presence and stored value
\* of j are the same before and after the call, in MyDict and MySortedDict,
\* and len() changes by at most one.
C21_SingleKeyFrame ==
    [][last'.op \in {"set", "update", "setdefault", "pop"} =>
          /\ \A j \in Keys \ {last'.key} :
                /\ StoredWithKey("MyDict", hd', j) = StoredWithKey("MyDict", hd, j)
                /\ StoredWithKey("MySortedDict", sd', j) = StoredWithKey("MySortedDict", sd, j)
                /\ BaseDict_getitem("MyDict", hd', j).exc = BaseDict_getitem("MyDict", hd, j).exc
                /\ BaseDict_getitem("MyDict", hd', j).ret = BaseDict_getitem("MyDict", hd, j).ret
                /\ BaseDict_getitem("MySortedDict", sd', j).exc =
                       BaseDict_getitem("MySortedDict", sd, j).exc
                /\ BaseDict_getitem("MySortedDict", sd', j).ret =
                       BaseDict_getitem("MySortedDict", sd, j).ret
          /\ AtMostOneApart(MyDict_len(hd'), MyDict_len(hd))
          /\ AtMostOneApart(MySortedDict_len(sd'), MySortedDict_len(sd))]_vars

\* pop has removed a stored key lying between a smaller and a larger stored key
C21_Witness ==
    /\ last.op = "pop"
    /\ last.h.entry # NoEntry /\ last.s.entry # NoEntry
    /\ last.key \notin HKeys /\ last.key \notin SKeys
    /\ \E i, j \in HKeys : i < last.key /\ last.key < j
    /\ \E i, j \in SKeys : i < last.key /\ last.key < j

\* C22: every operation that fails leaves its container unchanged: an indexed
\* read of a missing key and a pop without default of a missing key (MyDict,
\* MySortedDict), a peekitem with an out-of-range index (MySortedDict) and an
\* indexed read of a missing key on DictCache do fail, and every failing call
\* ends with the keys, values, size and order it started with, the recency
\* order of the cache included.
C22_FailureFrame ==
    [][/\ (last'.op = "getitem" /\ last'.key \notin HKeys) => last'.h.exc = "KeyError"
       /\ (last'.op = "getitem" /\ last'.key \notin SKeys) => last'.s.exc = "KeyError"
       /\ (last'.op = "pop" /\ last'.arg = Sentinel /\ last'.key \notin HKeys) =>
              last'.h.exc = "KeyError"
       /\ (last'.op = "pop" /\ last'.arg = Sentinel /\ last'.key \notin SKeys) =>
              last'.s.exc = "KeyError"
       /\ (last'.op = "peekitem" /\ (last'.key < 0 - Len(sd) \/ last'.key >= Len(sd))) =>
              last'.s.exc = "IndexError"
       /\ (clast'.op = "read" /\ clast'.key \notin CKeys) => clast'.exc = "KeyError"
       /\ last'.h.exc # "none" =>
              /\ hd' = hd
              /\ MyDict_len(hd') = MyDict_len(hd)
              /\ horder' = horder
       /\ last'.s.exc # "none" =>
              /\ sd' = sd
              /\ MySortedDict_len(sd') = MySortedDict_len(sd)
       /\ clast'.exc # "none" =>
              /\ cache' = cache
              /\ Len(cache') = Len(cache)
              /\ hist' = hist
              /\ wrote' = wrote
              /\ refreshed' = refreshed
              /\ maxsize' = maxsize]_vars

\* an indexed read of an evicted key has failed on a full cache of two keys
\* or more whose oldest key is not the one written first
C22_Witness ==
    /\ clast.op = "read"
    /\ clast.exc = "KeyError"
    /\ clast.key \notin CKeys
    /\ clast.key \in DOMAIN wrote
    /\ Len(cache) = maxsize
    /\ maxsize >= 2
    /\ cache[1].key > cache[Len(cache)].key

\* C23: in every reachable state of MySortedDict and for every key k,
\* bisect_right(k) - bisect_left(k) is 1 when k is present and 0 when it is
\* absent; when k is present, peekitem(bisect_left(k)) returns (k, value
\* stored for k), the entry that the binary-search lookup of get returns.
C23_BisectWidth ==
    \A k \in 0..(MaxKey + 1) :
        LET lo == MySortedDict_bisect_left(sd, k)
            hi == MySortedDict_bisect_right(sd, k)
            peek == MySortedDict_peekitem(sd, lo)
            found == MySortedDict_get_entry(sd, k)
        IN  /\ hi - lo = IF k \in SKeys THEN 1 ELSE 0
            /\ k \in SKeys =>
                  /\ peek.exc = "none"
                  /\ peek.ret[1] = k
                  /\ {peek.ret[2]} = SValues(k)
                  /\ found # NoEntry
                  /\ peek.ret = <<found[1].key, found[1].value>>
                  /\ BaseDict_get("MySortedDict", sd, k, None).ret = peek.ret[2]
            /\ k \notin SKeys => found = NoEntry

\* peekitem at the bisect_left position of the largest of three keys has
\* returned that key with its real value
C23_Witness ==
    /\ last.op = "peekitem"
    /\ last.key = 2
    /\ Len(sd) = 3
    /\ last.s.exc = "none"
    /\ last.s.ret[1] \in SKeys
    /\ last.s.ret[2] \in Vals
    /\ MySortedDict_bisect_left(sd, last.s.ret[1]) = last.key
    /\ MySortedDict_bisect_right(sd, last.s.ret[1]) = last.key + 1

\* the (key, value) pairs a dictionary holds
HPairs == {<<e.key, e.value>> : e \in hd}

SPairs == {<<sd[i].key, sd[i].value>> : i \in 1..Len(sd)}

\* C24: MyDict and MySortedDict, run side by side on the same set, update,
\* setdefault, pop, get and indexed-read calls, return the same value or
\* raise the same error in every call, and after every call have the same
\* len() and the same set of (key, value) pairs, so that every further get
\* and indexed read answers the same in both.
C24_Equivalence ==
    /\ last.op \in {"set", "update", "setdefault", "pop", "get", "getitem"} =>
          /\ last.h.exc = last.s.exc
          /\ last.h.ret = last.s.ret
    /\ MyDict_len(hd) = MySortedDict_len(sd)
    /\ HPairs = SPairs
    /\ \A k \in Keys :
          /\ BaseDict_getitem("MyDict", hd, k).exc = BaseDict_getitem("MySortedDict", sd, k).exc
          /\ BaseDict_getitem("MyDict", hd, k).ret = BaseDict_getitem("MySortedDict", sd, k).ret
          /\ \A d \in PyVals :
                BaseDict_get("MyDict", hd, k, d).ret = BaseDict_get("MySortedDict", sd, k, d).ret

\* setdefault on a stored key has returned the stored value, not the default,
\* in both dictionaries of three keys
C24_Witness ==
    /\ last.op = "setdefault"
    /\ last.h.entry # NoEntry /\ last.s.entry # NoEntry
    /\ last.h.ret \in Vals /\ last.h.ret # last.arg
    /\ last.s.ret = last.h.ret
    /\ MyDict_len(hd) = 3 /\ MySortedDict_len(sd) = 3

\* the smaller of two numbers
Min(m, n) == IF m <= n THEN m ELSE n

\* The reference LRU model: of the keys ever written, ordered by their last
\* successful read or write, the min(maxsize, d) most recent ones, oldest first.
ReferenceKeys ==
    LET d == Len(hist)
    IN  SubSeq(hist, d - Min(maxsize, d) + 1, d)

\* C25: DictCache agrees with the reference LRU model: the stored keys are
\* exactly the min(maxsize, d) distinct keys with the most recent successful
\* read or write (d = number of distinct keys ever written), the eviction
\* order of the stored keys is the order of their last access, oldest first,
\* and each stored key's value is the value of the last write to that key.
C25_ReferenceLRU ==
    /\ Len(hist) = Cardinality(DOMAIN wrote)
    /\ {hist[i] : i \in 1..Len(hist)} = DOMAIN wrote
    /\ Len(cache) = Min(maxsize, Cardinality(DOMAIN wrote))
    /\ CKeys = {ReferenceKeys[i] : i \in 1..Len(ReferenceKeys)}
    /\ Cardinality(CKeys) = Len(cache)
    /\ [i \in 1..Len(cache) |-> cache[i].key] = ReferenceKeys
    /\ \A i \in 1..Len(cache) : cache[i].value = wrote[cache[i].key]

\* after more keys were written than the cache of two or more holds, a read
\* has made a stored key the most recent one, and the stored values differ
C25_Witness ==
    /\ clast.op = "read"
    /\ clast.exc = "none"
    /\ maxsize >= 2
    /\ Len(hist) > maxsize
    /\ Len(cache) = maxsize
    /\ hist[1] \notin CKeys
    /\ cache[1].value # cache[Len(cache)].value

====
